---- MODULE Spec2Model ----
(***************************************************************************)
(* Model of the article scraper: the fetch layer and record construction   *)
(* of fixed_scraper.py (FixedWebScraper) and the job control of web_app.py *)
(* (start/stop/status/logs handlers and the run_scraper worker thread).    *)
(*                                                                         *)
(* Python values are represented as follows: None is the empty sequence,   *)
(* an optional value v is <<v>>; an error tag is a sequence of tokens      *)
(* ('request_failed' is <<"request_failed">>, f"http_{s}" is               *)
(* <<"http_", s>>).                                                        *)
(***************************************************************************)
EXTENDS Integers, Sequences, FiniteSets, TLC

\* ------------------------------------------------------------------ bounds
\* largest configured scraping.max_retries explored
MaxRetries == 3
\* largest counter value a detail page shows
MaxCount == 2
\* largest configured bestseller threshold explored
MaxThreshold == 1
\* number of start requests accepted over a run of the server
MaxJobs == 2
\* largest configured scraping.max_pages
MaxPages == 2
\* largest number of links one list page yields
MaxLinks == 2
\* longest element text given to extract_text and extract_number
MaxText == 4
\* largest max_length given to extract_text
MaxLength == 2
\* largest number of pieces of an href
MaxHref == 2
\* largest number of elements the article_links selector matches on a page
MaxAnchors == 2
\* largest number of records given to one call of save_to_csv
MaxRecords == 2
\* largest number of paragraphs inside, and outside, the article element
MaxParagraphs == 2
\* largest number of div/section/main blocks of a page
MaxBlocks == 2

\* web_app.py: min_content_length
min_content_length == 200
\* extract_content: the shortest paragraph it keeps
paragraph_floor == 20
\* extract_content: the shortest paragraph text it accepts
content_floor == 200

None == <<>>
Some(v) == <<v>>

VARIABLES
    \* --- FixedWebScraper configuration (fixed_scraper.py __init__)
    max_retries,            \* self.max_retries
    max_pages,              \* self.max_pages
    min_read_count,         \* self.min_read_count
    min_interaction_count,  \* self.min_interaction_count
    selectors,              \* the fields self.selectors has a selector for
    \* --- one call of the fetch layer
    fetch_pc,               \* "idle" before the call, then which call was made
    outcomes,               \* what the network did on each GET attempt of the call
    attempts,               \* number of session.get calls issued by make_request
    response,               \* make_request's return value (None or <<response>>)
    soup,                   \* the detail page behind the response (NoPage if none)
    article_data,           \* parse_article_detail's return value (None or <<record>>)
    verdict,                \* <<[read_count, interaction_count, result]>> of an is_bestseller call
    field_call,             \* one call of extract_text or extract_number: None
                            \* or <<[op, selector, element, max_length, result]>>
    links_call,             \* one call of fetch_article_links: None or
                            \* <<[page_url, response, page, result]>>
    content_call,           \* one call of extract_content: None or
                            \* <<[selector, page, result]>>
    save_call               \* one call of save_to_csv: None or
                            \* <<[data, before, failure, result, file]>>

VARIABLES
    \* --- web_app.py module state
    scraping_status,        \* the shared status dict (without its log_messages copy)
    global_logs,            \* the log list served by /api/logs
    current_keywords,       \* keywords of the latest accepted start request
    last_articles,          \* records of the latest finished job (preview)
    csv_file,               \* the output file: None or <<records written>>
    \* --- threads and clients
    threads,                \* the run_scraper threads, in order of creation
    reply,                  \* what the latest /api/start or /api/stop call answered
    poller,                 \* a client of /api/logs and the call it has in progress
    stopped_at,             \* history: per thread, None or <<its current_article when
                            \* a stop request was accepted during its detail loop>>
    env                     \* what the clients, the site and the configuration can do

fetch_vars == <<max_retries, max_pages, min_read_count, min_interaction_count,
                selectors, fetch_pc, outcomes, attempts, response, soup,
                article_data, verdict,
                field_call, links_call, content_call, save_call>>

config_vars == <<max_retries, max_pages, min_read_count, min_interaction_count,
                 selectors>>

call_vars == <<fetch_pc, outcomes, attempts, response, soup, article_data,
               verdict>>

other_calls == <<content_call, save_call>>

job_vars == <<scraping_status, global_logs, current_keywords, last_articles,
              csv_file, threads, reply, poller, stopped_at, env>>

vars == <<fetch_vars, job_vars>>

\* ------------------------------------------------------------ environment
\* exceptions of session.get that make_request retries
TransportErrors == {"ssl", "connection", "timeout", "request_exception"}
\* HTTP status codes of responses that complete at transport level
Statuses == {200, 204, 404}
\* outcome of one GET attempt: a response with a status, a retried transport
\* exception, or any other exception
Outcomes ==
    [kind : {"response"}, status : Statuses]
    \cup [kind : TransportErrors \cup {"unexpected"}, status : {0}]

\* the keywords a start request may carry
Keywords == {"kw"}

\* the fields of the default configuration's selectors
Fields == {"title", "author", "publish_time", "read_count", "like_count",
           "collect_count", "summary"}

\* what the title selector matches on a detail page: nothing, or an element
\* with a text (a string is the sequence of its characters)
TitleElements == {None, Some(<<"x">>)}

\* soup.title.string of a detail page: none, blank, or a text
DocTitles == {None, Some(<<" ">>), Some(<<" ", "7">>)}

\* what a fetched detail page yields: the counters it shows, the length of
\* the extracted content, the keywords occurring in its title or content, and
\* whether parsing it raises
DetailPages ==
    [read_count : 0..MaxCount, like_count : 0..MaxCount,
     collect_count : 0..MaxCount,
     content_len : {0, min_content_length},
     mentions : SUBSET Keywords,
     broken : BOOLEAN,
     title_element : TitleElements,
     doc_title : DocTitles]

\* the page used where no page was fetched
NoPage ==
    [read_count |-> 0, like_count |-> 0, collect_count |-> 0,
     content_len |-> 0, mentions |-> {}, broken |-> FALSE,
     title_element |-> None, doc_title |-> None]

\* ------------------------------------------------------------ make_request
\* make_request_from giving up one attempt early (retry test off by one)
RECURSIVE make_request_from_short(_, _)
make_request_from_short(outs, attempt) ==
    IF attempt >= max_retries
    THEN [attempts |-> attempt, response |-> None]
    ELSE LET o == outs[attempt + 1] IN
         IF o.kind = "response"
         THEN [attempts |-> attempt + 1,
               response |-> Some([status_code |-> o.status])]
         ELSE IF o.kind \in TransportErrors
         THEN IF attempt < max_retries - 2
              THEN make_request_from_short(outs, attempt + 1)
              ELSE [attempts |-> attempt + 1, response |-> None]
         ELSE [attempts |-> attempt + 1, response |-> None]

\* attempts of the loop `for attempt in range(self.max_retries)` from index
\* `attempt` on; outs[attempt + 1] is what session.get does on that attempt.
\* Result: the number of GETs issued in total and the returned value.
RECURSIVE make_request_from(_, _)
make_request_from(outs, attempt) ==
    IF attempt >= max_retries
    THEN [attempts |-> attempt, response |-> None]
    ELSE LET o == outs[attempt + 1] IN
         IF o.kind = "response"
         THEN [attempts |-> attempt + 1,
               response |-> Some([status_code |-> o.status])]
         ELSE IF o.kind \in TransportErrors
         THEN IF attempt < max_retries - 1
              THEN make_request_from(outs, attempt + 1)
              ELSE [attempts |-> attempt + 1, response |-> None]
         ELSE [attempts |-> attempt + 1, response |-> None]

make_request(outs) == make_request_from(outs, 0)

\* `if not response`: None is falsy, and so is a requests.Response whose
\* status is an HTTP error (Response.__bool__ is Response.ok)
Falsy(resp) ==
    \/ resp = None
    \/ resp[1].status_code >= 400 /\ resp[1].status_code < 600

\* ------------------------------------------------------- field extractors
\* A Python string is the sequence of its characters; '' is <<>>. An optional
\* value is None or Some(v), so Some(<<>>) is the empty string and None is None.
Chars == {" ", ",", "x", "0", "7"}

Digits == {"0", "7"}

\* int() of one decimal digit
DigitValue(c) == IF c = "7" THEN 7 ELSE 0

\* element.text of the elements a selector can match
Texts == UNION {[1..n -> Chars] : n \in 0..MaxText}

\* what soup.select_one(selector) finds: no element, or an element with a text
Elements == {None} \cup {Some(t) : t \in Texts}

\* str.strip()
strip(text) ==
    LET kept == {k \in 1..Len(text) : text[k] # " "} IN
    IF kept = {} THEN <<>>
    ELSE SubSeq(text,
                CHOOSE k \in kept : \A m \in kept : k <= m,
                CHOOSE k \in kept : \A m \in kept : k >= m)

\* str.replace(',', '')
replace_commas(text) == SelectSeq(text, LAMBDA c : c # ",")

\* re.findall(r'\d+', text)[0] when there is a match: the leftmost longest
\* run of digits; <<>> when there is none
first_number(text) ==
    LET starts == {k \in 1..Len(text) : text[k] \in Digits} IN
    IF starts = {} THEN <<>>
    ELSE LET first == CHOOSE k \in starts : \A m \in starts : k <= m
             ends  == {k \in first..Len(text) :
                          /\ \A m \in first..k : text[m] \in Digits
                          /\ k = Len(text) \/ text[k + 1] \notin Digits}
         IN SubSeq(text, first, CHOOSE k \in ends : TRUE)

\* int() of a string of decimal digits
RECURSIVE int(_)
int(digits) ==
    IF digits = <<>> THEN 0
    ELSE 10 * int(SubSeq(digits, 1, Len(digits) - 1))
         + DigitValue(digits[Len(digits)])

\* FixedWebScraper.extract_text: selector tells whether the field has a
\* selector configured, element is what the selector would match. The body
\* ends after the test of the selector (the next def starts at line 552), so
\* with a selector the function falls off its end and returns None.
extract_text(selector, element, max_length) ==
    IF ~selector THEN Some(<<>>)
    ELSE None

\* extract_number returning the digits of the whole text
extract_number_all_digits(selector, element) ==
    IF ~selector THEN 0
    ELSE IF element # None
    THEN int(SelectSeq(element[1], LAMBDA c : c \in Digits))
    ELSE 0

\* FixedWebScraper.extract_number
extract_number(selector, element) ==
    IF ~selector THEN 0
    ELSE IF element # None
    THEN LET text    == replace_commas(strip(element[1]))
             numbers == first_number(text) IN
         IF numbers # <<>> THEN int(numbers) ELSE 0
    ELSE 0

\* ------------------------------------------------------------ is_bestseller
\* is_bestseller with non-strict comparisons
is_bestseller_ge(read_count, interaction_count) ==
    (read_count >= min_read_count) /\ (interaction_count >= min_interaction_count)

is_bestseller(read_count, interaction_count) ==
    (read_count > min_read_count) /\ (interaction_count > min_interaction_count)

\* ----------------------------------------------------- parse_article_detail
\* the record returned when the fetch of the detail page failed
ErrorRecord(detail_url) ==
    [title         |-> <<>>,
     read_count    |-> 0,
     like_count    |-> 0,
     collect_count |-> 0,
     content_len   |-> 0,
     mentions      |-> {},
     detail_url    |-> detail_url,
     is_bestseller |-> FALSE,
     status_code   |-> None,
     error         |-> <<"request_failed">>]

\* the string a URL is
Url(detail_url) == <<"url", ToString(detail_url)>>

\* `not text` for an optional string
Empty(text) == text = None \/ text[1] = <<>>

\* Title without the last fallback to detail_url
Title_no_url(detail_url, page) ==
    LET title    == extract_text("title" \in selectors, page.title_element, None)
        fallback == IF page.doc_title # None THEN strip(page.doc_title[1])
                    ELSE <<>>
    IN IF Empty(title) THEN fallback ELSE title[1]

\* the title parse_article_detail gives the record of a fetched page
Title(detail_url, page) ==
    LET title    == extract_text("title" \in selectors, page.title_element, None)
        fallback == IF page.doc_title # None THEN strip(page.doc_title[1])
                    ELSE <<>>
        resolved == IF Empty(title) THEN fallback ELSE title[1]
    IN IF resolved = <<>> THEN Url(detail_url) ELSE resolved

\* PageRecord classifying on the like count alone
PageRecord_likes_only(detail_url, resp, page) ==
    [title         |-> Title(detail_url, page),
     read_count    |-> page.read_count,
     like_count    |-> page.like_count,
     collect_count |-> page.collect_count,
     content_len   |-> page.content_len,
     mentions      |-> page.mentions,
     detail_url    |-> detail_url,
     is_bestseller |-> is_bestseller(page.read_count, page.like_count),
     status_code   |-> Some(resp[1].status_code),
     error         |-> IF resp[1].status_code = 200 THEN None
                       ELSE <<"http_", resp[1].status_code>>]

\* the record built from a fetched page
PageRecord(detail_url, resp, page) ==
    LET interaction_count == page.like_count + page.collect_count IN
    [title         |-> Title(detail_url, page),
     read_count    |-> page.read_count,
     like_count    |-> page.like_count,
     collect_count |-> page.collect_count,
     content_len   |-> page.content_len,
     mentions      |-> page.mentions,
     detail_url    |-> detail_url,
     is_bestseller |-> is_bestseller(page.read_count, interaction_count),
     status_code   |-> Some(resp[1].status_code),
     error         |-> IF resp[1].status_code = 200 THEN None
                       ELSE <<"http_", resp[1].status_code>>]

\* FixedWebScraper.parse_article_detail given make_request's return value and
\* the page behind it: None when parsing raises
ParseResult(detail_url, resp, page) ==
    IF Falsy(resp) THEN Some(ErrorRecord(detail_url))
    ELSE IF page.broken THEN None
    ELSE Some(PageRecord(detail_url, resp, page))

\* ------------------------------------------------------------ environments
\* configurations under which run_scraper raises outside the handled places:
\* "init" in WebScraperWithProgress(config_manager) (e.g. headers that are no
\* mapping), "pages" in range(1, max_pages + 1) (max_pages no integer),
\* "delay" in random.uniform(request_delay_min, request_delay_max)
Faults == {"none", "init", "pages", "delay"}

\* the keyword lists a start request can carry after tokenisation
KeywordLists == {<<>>} \cup {<<k>> : k \in Keywords}

\* detail pages of a job: a bestseller with full text mentioning the keyword,
\* a plain full-text article without any title, a bestseller without text, and a page whose
\* parsing raises
HitPage ==
    [read_count |-> MaxCount, like_count |-> MaxCount, collect_count |-> MaxCount,
     content_len |-> min_content_length, mentions |-> Keywords, broken |-> FALSE,
     title_element |-> Some(<<"x">>), doc_title |-> Some(<<" ", "7">>)]

PlainPage ==
    [read_count |-> 0, like_count |-> 0, collect_count |-> 0,
     content_len |-> min_content_length, mentions |-> {}, broken |-> FALSE,
     title_element |-> None, doc_title |-> None]

ShortPage ==
    [read_count |-> MaxCount, like_count |-> MaxCount, collect_count |-> MaxCount,
     content_len |-> 0, mentions |-> Keywords, broken |-> FALSE,
     title_element |-> None, doc_title |-> Some(<<" ">>)]

BrokenPage ==
    [read_count |-> 0, like_count |-> 0, collect_count |-> 0,
     content_len |-> 0, mentions |-> {}, broken |-> TRUE,
     title_element |-> None, doc_title |-> None]

\* An environment fixes what the model explores around the program:
\*   jobs      how many start requests the clients get accepted
\*   links     the largest number of links a list page yields
\*   faults    the faults a loaded configuration can have
\*   pages     the detail pages the site serves
\*   keywords  the keyword lists start requests carry
\*   save_failures  where save_to_csv can fail
\*   log_all   whether global_logs keeps every entry, or only the error
\*             entries of run_scraper's except clause (the other entries are
\*             read by no operation but get_logs)
\* one job on a site with every kind of page and configuration
FullEnv ==
    [jobs |-> 1, links |-> MaxLinks, faults |-> Faults,
     pages |-> {HitPage, PlainPage, ShortPage, BrokenPage},
     keywords |-> KeywordLists, log_all |-> TRUE,
     save_failures |-> {"none", "open", "write"}]

\* several jobs that may overlap
RaceEnv ==
    [jobs |-> MaxJobs, links |-> MaxLinks, faults |-> {"none", "init"},
     pages |-> {HitPage, ShortPage},
     keywords |-> KeywordLists, log_all |-> FALSE,
     save_failures |-> {"none", "open"}]

\* several jobs that may overlap, on a one-page site, without keywords
FairEnv ==
    [jobs |-> MaxJobs, links |-> MaxLinks, faults |-> {"none", "init"},
     pages |-> {HitPage},
     keywords |-> {<<>>}, log_all |-> FALSE,
     save_failures |-> {"none", "open"}]

\* one job on a one-page site, its whole log kept
LogEnv ==
    [jobs |-> 1, links |-> 1, faults |-> {"none", "init"},
     pages |-> {HitPage},
     keywords |-> {<<>>}, log_all |-> TRUE,
     save_failures |-> {"none", "open"}]

\* ------------------------------------------------------------ web_app state
\* scraping_status as the module defines it
InitialStatus ==
    [is_running        |-> FALSE,
     progress          |-> 0,
     total_articles    |-> 0,
     current_article   |-> 0,
     bestsellers_found |-> 0,
     error             |-> None]

\* a client of /api/logs before its first call: cursor 0, nothing received
InitialPoller ==
    [pc |-> "idle", last_index |-> 0, logs |-> <<>>, received |-> <<>>]

\* ------------------------------------------------------------- fetch layer
FetchInit ==
    /\ max_retries \in 0..MaxRetries
    /\ max_pages = 1
    /\ min_read_count \in 0..MaxThreshold
    /\ min_interaction_count \in 0..MaxThreshold
    /\ selectors \in {{}, Fields}
    /\ fetch_pc = "idle"
    /\ outcomes = <<>>
    /\ attempts = 0
    /\ response = None
    /\ soup = NoPage
    /\ article_data = None
    /\ verdict = None
    /\ field_call = None
    /\ links_call = None
    /\ content_call = None
    /\ save_call = None
    /\ scraping_status = InitialStatus
    /\ global_logs = <<>>
    /\ current_keywords = <<>>
    /\ last_articles = <<>>
    /\ csv_file = None
    /\ threads = <<>>
    /\ reply = "none"
    /\ poller = InitialPoller
    /\ stopped_at = <<>>
    /\ env = FullEnv

\* one call scraper.parse_article_detail(detail_url): the request with its
\* retries, then the record
parse_article_detail ==
    /\ fetch_pc = "idle"
    /\ \E outs \in [1..max_retries -> Outcomes] :
         LET r == make_request(outs) IN
         /\ outcomes' = outs
         /\ attempts' = r.attempts
         /\ response' = r.response
         /\ \E page \in DetailPages :
              /\ Falsy(r.response) => page = NoPage
              /\ soup' = page
              /\ article_data' = ParseResult(1, r.response, page)
    /\ fetch_pc' = "parsed"
    /\ UNCHANGED <<config_vars, verdict, field_call, links_call, other_calls>>
    /\ UNCHANGED job_vars

\* one call scraper.is_bestseller(read_count, interaction_count)
classify ==
    /\ fetch_pc = "idle"
    /\ \E r \in 0..MaxCount, i \in 0..(2 * MaxCount) :
         verdict' = Some([read_count |-> r, interaction_count |-> i,
                          result |-> is_bestseller(r, i)])
    /\ fetch_pc' = "classified"
    /\ UNCHANGED <<config_vars, outcomes, attempts, response, soup,
                   article_data, field_call, links_call, other_calls>>
    /\ UNCHANGED job_vars

FetchNext == parse_article_detail \/ classify

FetchSpec == FetchInit /\ [][FetchNext]_vars

\* --------------------------------------------------- field extractor calls
\* one call scraper.extract_text(soup, field, max_length)
extract_text_call ==
    /\ field_call = None
    /\ \E selector \in BOOLEAN, element \in Elements,
          max_length \in {None} \cup {Some(n) : n \in 1..MaxLength} :
         /\ ~selector => element = None
         /\ field_call' = Some([op         |-> "extract_text",
                                selector   |-> selector,
                                element    |-> element,
                                max_length |-> max_length,
                                result     |-> extract_text(selector, element,
                                                            max_length)])
    /\ UNCHANGED <<config_vars, call_vars, links_call, other_calls, job_vars>>

\* one call scraper.extract_number(soup, field)
extract_number_call ==
    /\ field_call = None
    /\ \E selector \in BOOLEAN, element \in Elements :
         /\ ~selector => element = None
         /\ field_call' = Some([op         |-> "extract_number",
                                selector   |-> selector,
                                element    |-> element,
                                max_length |-> None,
                                result     |-> Some(extract_number(selector,
                                                                   element))])
    /\ UNCHANGED <<config_vars, call_vars, links_call, other_calls, job_vars>>

FieldNext == extract_text_call \/ extract_number_call

\* the field extractors applied to every element text within the bounds
FieldSpec == FetchInit /\ [][FieldNext]_vars

\* ------------------------------------------------------- run_scraper threads
\* a thread created by start_scraping that has not run yet; the fields are the
\* locals of run_scraper and the attributes of its WebScraperWithProgress
NewThread ==
    [pc              |-> "spawned",
     fault           |-> "none",   \* what the loaded configuration makes raise
     page            |-> 1,        \* fetch_multiple_pages: page
     all_links       |-> <<>>,     \* fetch_multiple_pages: all_links / article_links
     link            |-> 1,        \* position of the detail loop in article_links
     detail_url      |-> 0,        \* the link last given to parse_article_detail
     article_data    |-> None,     \* run_scraper: article_data, the last parse result
     total_articles  |-> 0,        \* scraper.total_articles
     current_article |-> 0,        \* scraper.current_article
     articles        |-> <<>>,     \* run_scraper: articles
     keywords        |-> <<>>,     \* run_scraper: keywords
     saved           |-> None,     \* what save_to_csv returned: None before the call
     \* --- history of the job, kept while its thread is alive
     sink_calls      |-> 0,        \* number of calls of save_to_csv
     stop_seen       |-> FALSE,    \* a stop request was accepted during the job
     bestsellers     |-> 0,        \* parse results with is_bestseller true
     slept           |-> None]     \* the time.sleep since the last fetch was
                                   \* issued: None, or <<the delay range drawn from>>

\* a thread that has returned from run_scraper: its frame is gone
DoneThread == [NewThread EXCEPT !.pc = "done"]

Live(i) == threads[i].pc # "done"

LiveThreads == {i \in 1..Len(threads) : Live(i)}

\* the entries of run_scraper's except clause
ErrorEntries == {"error", "error_msg"}

\* log_message and the direct appends to global_logs
Log(entries) ==
    global_logs' = global_logs
        \o SelectSeq(entries, LAMBDA e : env.log_all \/ e \in ErrorEntries)

\* what fetch_article_links meets on a list page, with the number of links it
\* returns and the entries it logs through log_message:
\*  "failed"     make_request returned nothing
\*  "links"      n anchors match the selector and all pass the filters
\*  "filtered"   one anchor matches and is filtered out
\*  "no_anchors" the page has no anchor: the page URL itself is returned
ListPages ==
    {[kind |-> "failed", n |-> 0], [kind |-> "filtered", n |-> 0],
     [kind |-> "no_anchors", n |-> 1]}
    \cup {[kind |-> "links", n |-> n] : n \in 1..env.links}

ListPageLogs(lp) ==
    IF lp.kind = "failed" THEN <<"list_failed">>
    ELSE <<"list_response", "a_count", "selector_hits">>
         \o (IF lp.kind = "links" THEN [k \in 1..lp.n |-> "sample_link"]
             ELSE IF lp.kind = "filtered" THEN <<"sample_link">>
             ELSE <<>>)
         \o <<"valid_links">>
         \o (IF lp.kind = "no_anchors" THEN <<"single_article">> ELSE <<>>)

\* what super().parse_article_detail(link) can return in a job: the record
\* of a failed fetch, or the result of parsing a page fetched with status 200
JobDetailResults(link) ==
    {ParseResult(link, None, NoPage)}
    \cup {ParseResult(link, Some([status_code |-> 200]), pg) : pg \in env.pages}

\* Kept without the content floor
Kept_any_length(result, keywords) ==
    /\ result # None
    /\ \/ keywords = <<>>
       \/ \E k \in 1..Len(keywords) : keywords[k] \in result[1].mentions

\* run_scraper's filters on a parsed record: content floor, then keywords
Kept(result, keywords) ==
    /\ result # None
    /\ result[1].content_len >= min_content_length
    /\ \/ keywords = <<>>
       \/ \E k \in 1..Len(keywords) : keywords[k] \in result[1].mentions

\* int((current_article / max(total_articles, 1)) * 100)
Progress(current_article, total_articles) ==
    (current_article * 100) \div (IF total_articles > 1 THEN total_articles ELSE 1)

\* the module as loaded, no request made yet, with the scraper configuration
\* (fixed_config.json) asking for pages list pages, in environment e
Loaded(pages, e) ==
    /\ max_retries = MaxRetries
    /\ max_pages = pages
    /\ min_read_count = MaxThreshold
    /\ min_interaction_count = MaxThreshold
    /\ selectors = Fields
    /\ fetch_pc = "idle"
    /\ outcomes = <<>>
    /\ attempts = 0
    /\ response = None
    /\ soup = NoPage
    /\ article_data = None
    /\ verdict = None
    /\ field_call = None
    /\ links_call = None
    /\ content_call = None
    /\ save_call = None
    /\ scraping_status = InitialStatus
    /\ global_logs = <<>>
    /\ current_keywords = <<>>
    /\ last_articles = <<>>
    /\ csv_file = None
    /\ threads = <<>>
    /\ reply = "none"
    /\ poller = InitialPoller
    /\ stopped_at = <<>>
    /\ env = e

JobInit == Loaded(MaxPages, FullEnv)

\* start_scraping without its test of is_running
start_scraping_unguarded(keywords) ==
    /\ Len(threads) < env.jobs
    /\ current_keywords' = keywords
    /\ Log(IF keywords # <<>> THEN <<"start_keywords">>
           ELSE <<"start_no_keywords">>)
    /\ threads' = Append(threads, NewThread)
    /\ stopped_at' = Append(stopped_at, None)
    /\ reply' = "started"
    /\ UNCHANGED scraping_status
    /\ UNCHANGED <<last_articles, csv_file, poller, env, fetch_vars>>

\* POST /api/start
start_scraping(keywords) ==
    /\ IF scraping_status.is_running
       THEN /\ reply' = "start_rejected"
            /\ UNCHANGED <<scraping_status, global_logs, current_keywords, threads,
                           stopped_at>>
       ELSE /\ Len(threads) < env.jobs
            /\ current_keywords' = keywords
            /\ Log(IF keywords # <<>> THEN <<"start_keywords">>
                   ELSE <<"start_no_keywords">>)
            /\ threads' = Append(threads, NewThread)
            /\ stopped_at' = Append(stopped_at, None)
            /\ reply' = "started"
            /\ UNCHANGED scraping_status
    /\ UNCHANGED <<last_articles, csv_file, poller, env, fetch_vars>>

\* POST /api/stop
stop_scraping ==
    /\ IF ~scraping_status.is_running
       THEN /\ reply' = "stop_rejected"
            /\ UNCHANGED <<scraping_status, stopped_at, threads>>
       ELSE /\ scraping_status' = [scraping_status EXCEPT !.is_running = FALSE]
            /\ reply' = "stopped"
            /\ threads' = [i \in 1..Len(threads) |->
                              IF Live(i)
                              THEN [threads[i] EXCEPT !.stop_seen = TRUE]
                              ELSE threads[i]]
            /\ stopped_at' =
                   [i \in 1..Len(threads) |->
                       IF threads[i].pc \in {"detail_check", "detail_fetch"}
                          /\ stopped_at[i] = None
                       THEN Some(threads[i].current_article)
                       ELSE stopped_at[i]]
    /\ UNCHANGED <<global_logs, current_keywords, last_articles, csv_file,
                   poller, env, fetch_vars>>

\* run_scraper up to the call of fetch_multiple_pages: the first log entry,
\* the reset of scraping_status, the configuration and the scraper
run_scraper_begin(i) ==
    /\ threads[i].pc = "spawned"
    /\ scraping_status' =
           [is_running |-> TRUE, progress |-> 0, total_articles |-> 0,
            current_article |-> 0, bestsellers_found |-> 0, error |-> None]
    /\ \E f \in env.faults :
         IF f = "init"
         THEN /\ Log(<<"initialising">>)
              /\ threads' = [threads EXCEPT ![i].pc = "except", ![i].fault = f]
         ELSE /\ Log(<<"initialising", "task_begin">>)
              /\ threads' = [threads EXCEPT ![i].pc = "page_check", ![i].fault = f]
    /\ UNCHANGED <<current_keywords, last_articles, csv_file, reply, poller, stopped_at, env, fetch_vars>>

\* fetch_multiple_pages_check with run_scraper going on to the detail loop
\* and the save when no link was found
fetch_multiple_pages_check_no_return(i) ==
    LET t == threads[i] IN
    /\ t.pc = "page_check"
    /\ IF t.fault = "pages"
       THEN /\ threads' = [threads EXCEPT ![i].pc = "except"]
            /\ UNCHANGED global_logs
       ELSE IF t.page <= max_pages /\ scraping_status.is_running
       THEN /\ Log(<<"page">>)
            /\ threads' = [threads EXCEPT ![i].pc = "page_fetch"]
       ELSE /\ Log(<<"total_links">>)
            /\ threads' = [threads EXCEPT ![i].pc = "detail_check",
                                          ![i].keywords = current_keywords]
    /\ UNCHANGED <<scraping_status, current_keywords, last_articles, csv_file,
                   reply, poller, stopped_at, env, fetch_vars>>

\* fetch_multiple_pages at the top of its loop: the stop test and the page
\* log entry; at the end of the loop the summary entry, the return to
\* run_scraper and its test for an empty link list
fetch_multiple_pages_check(i) ==
    LET t == threads[i] IN
    /\ t.pc = "page_check"
    /\ IF t.fault = "pages"
       THEN /\ threads' = [threads EXCEPT ![i].pc = "except"]
            /\ UNCHANGED global_logs
       ELSE IF t.page <= max_pages /\ scraping_status.is_running
       THEN /\ Log(<<"page">>)
            /\ threads' = [threads EXCEPT ![i].pc = "page_fetch"]
       ELSE IF t.all_links = <<>>
       THEN /\ Log(<<"total_links", "no_links_task_end">>)
            /\ threads' = [threads EXCEPT ![i].pc = "finally"]
       ELSE /\ Log(<<"total_links">>)
            /\ threads' = [threads EXCEPT ![i].pc = "detail_check",
                                          ![i].keywords = current_keywords]
    /\ UNCHANGED <<scraping_status, current_keywords, last_articles, csv_file,
                   reply, poller, stopped_at, env, fetch_vars>>

\* fetch_multiple_pages leaving its loop at the first page without links
fetch_multiple_pages_fetch_break(i) ==
    LET t == threads[i] IN
    /\ t.pc = "page_fetch"
    /\ \E lp \in ListPages :
         IF lp.n = 0
         THEN /\ Log(ListPageLogs(lp) \o <<"page_empty">>)
              /\ threads' = [threads EXCEPT ![i].pc = "page_check",
                                            ![i].page = max_pages + 1,
                                            ![i].slept = None]
              /\ UNCHANGED scraping_status
         ELSE LET links == t.all_links
                           \o [k \in 1..lp.n |-> Len(t.all_links) + k] IN
              /\ Log(ListPageLogs(lp))
              /\ threads' = [threads EXCEPT ![i].pc = "page_check",
                                            ![i].page = t.page + 1,
                                            ![i].all_links = links,
                                            ![i].total_articles = Len(links),
                                            ![i].slept = Some("page_delay")]
              /\ scraping_status' =
                     [scraping_status EXCEPT !.total_articles = Len(links)]
    /\ UNCHANGED <<current_keywords, last_articles, csv_file, reply, poller, stopped_at, env, fetch_vars>>

\* fetch_multiple_pages from fetch_article_links to the end of the iteration
fetch_multiple_pages_fetch(i) ==
    LET t == threads[i] IN
    /\ t.pc = "page_fetch"
    /\ \E lp \in ListPages :
         IF lp.n = 0
         THEN /\ Log(ListPageLogs(lp) \o <<"page_empty">>)
              /\ threads' = [threads EXCEPT ![i].pc = "page_check",
                                            ![i].page = t.page + 1,
                                            ![i].slept = None]
              /\ UNCHANGED scraping_status
         ELSE LET links == t.all_links
                           \o [k \in 1..lp.n |-> Len(t.all_links) + k] IN
              /\ Log(ListPageLogs(lp))
              /\ threads' = [threads EXCEPT ![i].pc = "page_check",
                                            ![i].page = t.page + 1,
                                            ![i].all_links = links,
                                            ![i].total_articles = Len(links),
                                            ![i].slept = Some("page_delay")]
              /\ scraping_status' =
                     [scraping_status EXCEPT !.total_articles = Len(links)]
    /\ UNCHANGED <<current_keywords, last_articles, csv_file, reply, poller, stopped_at, env, fetch_vars>>

\* the detail loop of run_scraper at the top of an iteration: the stop test,
\* then WebScraperWithProgress.parse_article_detail up to the fetch
detail_check(i) ==
    LET t == threads[i] IN
    /\ t.pc = "detail_check"
    /\ IF t.link > Len(t.all_links)
       THEN /\ threads' = [threads EXCEPT ![i].pc = "save"]
            /\ UNCHANGED <<scraping_status, global_logs>>
       ELSE IF ~scraping_status.is_running
       THEN /\ Log(<<"stopped_by_user">>)
            /\ threads' = [threads EXCEPT ![i].pc = "save"]
            /\ UNCHANGED scraping_status
       ELSE /\ threads' = [threads EXCEPT ![i].pc = "detail_fetch",
                                          ![i].detail_url = t.all_links[t.link],
                                          ![i].current_article = t.current_article + 1,
                                          ![i].slept = None]
            /\ scraping_status' =
                   [scraping_status EXCEPT
                       !.current_article = t.current_article + 1,
                       !.progress = Progress(t.current_article + 1, t.total_articles)]
            /\ Log(<<"article">>)
    /\ UNCHANGED <<current_keywords, last_articles, csv_file, reply, poller, stopped_at, env, fetch_vars>>

\* detail_fetch letting the failure of a parse escape to the except clause
detail_fetch_raising(i) ==
    LET t == threads[i] IN
    /\ t.pc = "detail_fetch"
    /\ \E result \in JobDetailResults(t.detail_url) :
         LET found == result # None /\ result[1].is_bestseller
             seen  == [t EXCEPT !.article_data = result,
                                !.bestsellers = t.bestsellers
                                                + (IF found THEN 1 ELSE 0)] IN
         /\ IF found
            THEN /\ scraping_status' =
                        [scraping_status EXCEPT
                            !.bestsellers_found = scraping_status.bestsellers_found + 1]
                 /\ Log(<<"bestseller">>)
            ELSE UNCHANGED <<scraping_status, global_logs>>
         /\ IF Kept(result, t.keywords)
            THEN threads' = [threads EXCEPT
                                ![i] = [seen EXCEPT
                                           !.pc = "detail_check",
                                           !.link = t.link + 1,
                                           !.articles = Append(t.articles, result[1]),
                                           !.slept = Some("request_delay")]]
            ELSE IF result = None
            THEN threads' = [threads EXCEPT ![i] = [seen EXCEPT !.pc = "except"]]
            ELSE threads' = [threads EXCEPT
                                ![i] = [seen EXCEPT !.pc = "detail_check",
                                                    !.link = t.link + 1]]
    /\ UNCHANGED <<current_keywords, last_articles, csv_file, reply, poller, stopped_at, env, fetch_vars>>

\* detail_fetch counting a bestseller only once its record is kept
detail_fetch_counting_kept(i) ==
    LET t == threads[i] IN
    /\ t.pc = "detail_fetch"
    /\ \E result \in JobDetailResults(t.detail_url) :
         LET found == result # None /\ result[1].is_bestseller
             seen  == [t EXCEPT !.article_data = result,
                                !.bestsellers = t.bestsellers
                                                + (IF found THEN 1 ELSE 0)] IN
         /\ IF found /\ Kept(result, t.keywords)
            THEN /\ scraping_status' =
                        [scraping_status EXCEPT
                            !.bestsellers_found = scraping_status.bestsellers_found + 1]
                 /\ Log(<<"bestseller">>)
            ELSE UNCHANGED <<scraping_status, global_logs>>
         /\ IF Kept(result, t.keywords)
            THEN IF t.fault = "delay"
                 THEN threads' = [threads EXCEPT
                                     ![i] = [seen EXCEPT
                                                !.pc = "except",
                                                !.articles = Append(t.articles, result[1])]]
                 ELSE threads' = [threads EXCEPT
                                     ![i] = [seen EXCEPT
                                                !.pc = "detail_check",
                                                !.link = t.link + 1,
                                                !.articles = Append(t.articles, result[1]),
                                                !.slept = Some("request_delay")]]
            ELSE threads' = [threads EXCEPT
                                ![i] = [seen EXCEPT !.pc = "detail_check",
                                                    !.link = t.link + 1]]
    /\ UNCHANGED <<current_keywords, last_articles, csv_file, reply, poller, stopped_at, env, fetch_vars>>

\* the rest of the iteration: the fetch returns, the bestseller count, the
\* filters of run_scraper, the append and the delay
detail_fetch(i) ==
    LET t == threads[i] IN
    /\ t.pc = "detail_fetch"
    /\ \E result \in JobDetailResults(t.detail_url) :
         LET found == result # None /\ result[1].is_bestseller
             seen  == [t EXCEPT !.article_data = result,
                                !.bestsellers = t.bestsellers
                                                + (IF found THEN 1 ELSE 0)] IN
         /\ IF found
            THEN /\ scraping_status' =
                        [scraping_status EXCEPT
                            !.bestsellers_found = scraping_status.bestsellers_found + 1]
                 /\ Log(<<"bestseller">>)
            ELSE UNCHANGED <<scraping_status, global_logs>>
         /\ IF Kept(result, t.keywords)
            THEN IF t.fault = "delay"
                 THEN threads' = [threads EXCEPT
                                     ![i] = [seen EXCEPT
                                                !.pc = "except",
                                                !.articles = Append(t.articles, result[1])]]
                 ELSE threads' = [threads EXCEPT
                                     ![i] = [seen EXCEPT
                                                !.pc = "detail_check",
                                                !.link = t.link + 1,
                                                !.articles = Append(t.articles, result[1]),
                                                !.slept = Some("request_delay")]]
            ELSE threads' = [threads EXCEPT
                                ![i] = [seen EXCEPT !.pc = "detail_check",
                                                    !.link = t.link + 1]]
    /\ UNCHANGED <<current_keywords, last_articles, csv_file, reply, poller, stopped_at, env, fetch_vars>>

\* how a call save_to_csv(data, ...) can fail: not at all, before the file is
\* touched (mkdir or open raises), or in the writer after the file was opened
\* for writing and rows of the data were written
SaveFailures(data) ==
    {[at |-> "none", rows |-> 0], [at |-> "open", rows |-> 0]}
    \cup {[at |-> "write", rows |-> n] : n \in 0..(Len(data) - 1)}

\* fixed_scraper.save_to_csv(data, filename): what it returns and the records
\* the file holds afterwards (None: no file; a header without rows is <<>>)
save_to_csv(data, file, failure) ==
    IF failure.at = "open" THEN [result |-> FALSE, file |-> file]
    ELSE IF failure.at = "write"
    THEN [result |-> FALSE, file |-> Some(SubSeq(data, 1, failure.rows))]
    ELSE [result |-> TRUE, file |-> Some(data)]

\* save_to_csv and what follows it in run_scraper
run_scraper_save(i) ==
    LET t == threads[i] IN
    /\ t.pc = "save"
    /\ \E failure \in SaveFailures(t.articles) :
         LET call == save_to_csv(t.articles, csv_file, failure) IN
         /\ failure.at \in env.save_failures
         /\ csv_file' = call.file
         /\ Log(IF call.result
                THEN <<(IF t.keywords # <<>> THEN "task_done_keywords"
                        ELSE "task_done"), "saved_to">>
                ELSE <<"save_failed">>)
         /\ threads' = [threads EXCEPT ![i].pc = "finally",
                                       ![i].saved = Some(call.result),
                                       ![i].sink_calls = t.sink_calls + 1]
    /\ last_articles' = t.articles
    /\ UNCHANGED <<scraping_status, current_keywords, reply, poller, stopped_at, env, fetch_vars>>

\* the except clause of run_scraper
run_scraper_except(i) ==
    LET t == threads[i] IN
    /\ t.pc = "except"
    /\ scraping_status' = [scraping_status EXCEPT !.error = Some("error_msg")]
    /\ Log(IF t.fault = "init" THEN <<"error">> ELSE <<"error", "error_msg">>)
    /\ threads' = [threads EXCEPT ![i].pc = "finally"]
    /\ UNCHANGED <<current_keywords, last_articles, csv_file, reply, poller, stopped_at, env, fetch_vars>>

\* run_scraper without its finally clause
run_scraper_finally_skipped(i) ==
    /\ threads[i].pc = "finally"
    /\ threads' = [threads EXCEPT ![i] = DoneThread]
    /\ UNCHANGED <<scraping_status, global_logs, current_keywords, last_articles,
                   csv_file, reply, poller, stopped_at, env, fetch_vars>>

\* the finally clause of run_scraper; the thread ends
run_scraper_finally(i) ==
    /\ threads[i].pc = "finally"
    /\ scraping_status' = [scraping_status EXCEPT !.is_running = FALSE]
    /\ threads' = [threads EXCEPT ![i] = DoneThread]
    /\ UNCHANGED <<global_logs, current_keywords, last_articles, csv_file,
                   reply, poller, stopped_at, env, fetch_vars>>

\* one step of thread i
run_scraper(i) ==
    /\ i \in 1..Len(threads)
    /\ \/ run_scraper_begin(i)
       \/ fetch_multiple_pages_check(i)
       \/ fetch_multiple_pages_fetch(i)
       \/ detail_check(i)
       \/ detail_fetch(i)
       \/ run_scraper_save(i)
       \/ run_scraper_except(i)
       \/ run_scraper_finally(i)

Next ==
    \/ \E keywords \in env.keywords : start_scraping(keywords)
    \/ stop_scraping
    \/ \E i \in 1..Len(threads) : run_scraper_begin(i)
    \/ \E i \in 1..Len(threads) : fetch_multiple_pages_check(i)
    \/ \E i \in 1..Len(threads) : fetch_multiple_pages_fetch(i)
    \/ \E i \in 1..Len(threads) : detail_check(i)
    \/ \E i \in 1..Len(threads) : detail_fetch(i)
    \/ \E i \in 1..Len(threads) : run_scraper_save(i)
    \/ \E i \in 1..Len(threads) : run_scraper_except(i)
    \/ \E i \in 1..Len(threads) : run_scraper_finally(i)

\* one job, every kind of page and configuration
Spec == JobInit /\ [][Next]_vars

\* GET /api/logs, first half: the slice global_logs[last_index:] is taken
get_logs_slice ==
    /\ poller.pc = "idle"
    /\ poller' = [poller EXCEPT
                     !.pc = "sliced",
                     !.logs = SubSeq(global_logs, poller.last_index + 1,
                                     Len(global_logs))]
    /\ UNCHANGED <<scraping_status, global_logs, current_keywords, last_articles,
                   csv_file, threads, reply, stopped_at, env, fetch_vars>>

\* GET /api/logs, second half: len(global_logs) is read and the reply is
\* sent; the client keeps the entries and takes next_index as its cursor
get_logs_return ==
    /\ poller.pc = "sliced"
    /\ poller' = [pc         |-> "idle",
                  last_index |-> Len(global_logs),
                  logs       |-> <<>>,
                  received   |-> poller.received \o poller.logs]
    /\ UNCHANGED <<scraping_status, global_logs, current_keywords, last_articles,
                   csv_file, threads, reply, stopped_at, env, fetch_vars>>

LogNext == Next \/ get_logs_slice \/ get_logs_return

LogInit == Loaded(1, LogEnv)

\* a client polling the log while a job runs
LogSpec == LogInit /\ [][LogNext]_vars

\* overlapping jobs
RaceInit == Loaded(1, RaceEnv)

RaceSpec == RaceInit /\ [][Next]_vars

FairInit == Loaded(1, FairEnv)

\* overlapping jobs whose threads are scheduled fairly: every thread that can
\* take a step takes it eventually (each fetch returns)
FairSpec ==
    /\ FairInit
    /\ [][Next]_vars
    /\ \A i \in 1..MaxJobs : WF_vars(run_scraper(i))

\* ------------------------------------------------------ fetch_article_links
\* An href is the sequence of its pieces: blanks, a scheme or fragment mark,
\* paths of two and of nine characters, an extension.
HrefPieces == {" ", "javascript:", "JavaScript:", "#", "/", "https:/",
               "ab", "abcdefghi", ".js"}

\* len() of a piece
PieceLen(piece) ==
    IF piece \in {" ", "#", "/"} THEN 1
    ELSE IF piece = "ab" THEN 2
    ELSE IF piece = ".js" THEN 3
    ELSE IF piece = "https:/" THEN 7
    ELSE IF piece = "https://" THEN 8
    ELSE IF piece = "abcdefghi" THEN 9
    ELSE 11

\* len() of an href
RECURSIVE len(_)
len(href) == IF href = <<>> THEN 0 ELSE PieceLen(Head(href)) + len(Tail(href))

\* str.lower() of an href
lower(href) ==
    [k \in 1..Len(href) |-> IF href[k] = "JavaScript:" THEN "javascript:"
                            ELSE href[k]]

\* href.split()[0] of a stripped, non-empty href
first_token(href) ==
    LET blanks == {k \in 1..Len(href) : href[k] = " "} IN
    IF blanks = {} THEN href
    ELSE SubSeq(href, 1, (CHOOSE k \in blanks : \A m \in blanks : k <= m) - 1)

\* "https:/x" becomes "https://x" (and the same for http)
fix_scheme(href) ==
    IF href # <<>> /\ href[1] = "https:/"
    THEN <<"https://">> \o Tail(href)
    ELSE href

\* the extensions of the tuple of line 369
ExcludedExtensions == {".js"}

Hrefs == UNION {[1..n -> HrefPieces] : n \in 0..MaxHref}

\* the text of an element: its length, and whether it contains one of
\* exclude_keywords
AnchorTexts == [length : {3, 4}, boilerplate : BOOLEAN]

\* an element matched by the article_links selector: a.get('href') is None
\* or a string
LinkElements == [href : {None} \cup {Some(h) : h \in Hrefs}, text : AnchorTexts]

\* a list page as parsed: the number of a elements, the elements the
\* selector matches in document order, and whether parsing it raises
ListPageSoups ==
    [a_count  : 0..1,
     elements : UNION {[1..n -> LinkElements] : n \in 0..MaxAnchors},
     broken   : BOOLEAN]

\* urljoin(page_url, href); urljoin(page_url, '') is page_url
urljoin(page_url, href) == [base |-> page_url, href |-> href]

\* the href of an element after lines 358-366: stripped, cut at its first
\* blank, its scheme repaired
normalised(element) ==
    LET stripped == strip(element.href[1]) IN
    fix_scheme(IF stripped # <<>> THEN first_token(stripped) ELSE stripped)

\* the body of the loop over the selected elements: whether the element
\* contributes a link
accepted(element) ==
    /\ element.href # None
    /\ element.href[1] # <<>>
    /\ LET href == normalised(element) IN
       /\ ~(href # <<>> /\ lower(href)[Len(href)] \in ExcludedExtensions)
       /\ ~(element.text.length < 4)
       /\ ~(len(href) < 10)
       /\ ~(href # <<>> /\ href[1] \in {"javascript:", "#"})
       /\ ~element.text.boilerplate

\* collect_links dropping a link that occurs again later on the page
RECURSIVE collect_links_unique(_, _)
collect_links_unique(page_url, elements) ==
    IF elements = <<>> THEN <<>>
    ELSE LET rest == collect_links_unique(page_url, Tail(elements))
             link == urljoin(page_url, normalised(Head(elements))) IN
         (IF accepted(Head(elements)) /\ \A k \in 1..Len(rest) : rest[k] # link
          THEN <<link>>
          ELSE <<>>)
         \o rest

\* the list `links` after the loop
RECURSIVE collect_links(_, _)
collect_links(page_url, elements) ==
    IF elements = <<>> THEN <<>>
    ELSE (IF accepted(Head(elements))
          THEN <<urljoin(page_url, normalised(Head(elements)))>>
          ELSE <<>>)
         \o collect_links(page_url, Tail(elements))

\* fetch_article_links returning the page URL whenever no link was found
fetch_article_links_any_fallback(page_url, resp, page) ==
    IF Falsy(resp) THEN <<>>
    ELSE IF page.broken THEN <<>>
    ELSE LET links == collect_links(page_url, page.elements) IN
         IF links = <<>> THEN <<urljoin(page_url, <<>>)>>
         ELSE links

\* FixedWebScraper.fetch_article_links given make_request's return value and
\* the page behind it
fetch_article_links(page_url, resp, page) ==
    IF Falsy(resp) THEN <<>>
    ELSE IF page.broken THEN <<>>
    ELSE LET links == collect_links(page_url, page.elements) IN
         IF links = <<>> /\ page.a_count = 0 THEN <<urljoin(page_url, <<>>)>>
         ELSE links

\* the page used where no page was fetched
NoListPage == [a_count |-> 0, elements |-> <<>>, broken |-> FALSE]

\* one call scraper.fetch_article_links(page_url)
fetch_article_links_call ==
    /\ links_call = None
    /\ \E resp \in {None} \cup {Some([status_code |-> st]) : st \in Statuses},
          page \in ListPageSoups :
         /\ Falsy(resp) => page = NoListPage
         /\ links_call' = Some([page_url |-> 1,
                                response |-> resp,
                                page     |-> page,
                                result   |-> fetch_article_links(1, resp, page)])
    /\ UNCHANGED <<config_vars, call_vars, field_call, other_calls, job_vars>>

\* fetch_article_links applied to every list page within the bounds
LinkSpec == JobInit /\ [][fetch_article_links_call]_vars

\* ---------------------------------------------------------- extract_content
\* A text is the sequence of the pieces it was joined from, each with where it
\* stands on the page and its length; '' is the empty sequence.
\* len(p) of the paragraphs of a page, after get_text(" ", strip=True)
ParagraphLengths == {19, 20, 99, 100}

ParagraphLists == UNION {[1..n -> ParagraphLengths] : n \in 0..MaxParagraphs}

\* len of the text of a div, section or main block
BlockLengths == {0, 5, 7}

\* what soup.select_one(selector) does with the content selector: it finds
\* no element, raises, or finds an element with a text
ContentMatches ==
    [kind : {"none", "raises"}, len : {0}] \cup [kind : {"element"}, len : {0, 5}]

\* a detail page as extract_content sees it: the match of the content
\* selector, the paragraphs of the first article element (None without such
\* an element), the paragraphs after it, and the blocks
ContentPages ==
    [match   : ContentMatches,
     article : {None} \cup {Some(ps) : ps \in ParagraphLists},
     rest    : ParagraphLists,
     blocks  : UNION {[1..n -> BlockLengths] : n \in 0..MaxBlocks}]

\* the pieces found at src with the lengths lens
Pieces(src, lens) ==
    SelectSeq([k \in 1..Len(lens) |-> [src |-> src, k |-> k, len |-> lens[k]]],
              LAMBDA piece : piece.len > 0)

\* len of a text joined with one separator between its pieces
RECURSIVE joined_len(_)
joined_len(text) ==
    IF text = <<>> THEN 0
    ELSE Head(text).len + (IF Len(text) > 1 THEN 1 ELSE 0) + joined_len(Tail(text))

\* [p for p in paragraphs if len(p) >= 20], joined
long_paragraphs(paragraphs) ==
    SelectSeq(paragraphs, LAMBDA p : p.len >= paragraph_floor)

\* the loop over the candidates: the first block with the longest text
best_text(blocks) ==
    LET texts == Pieces("block", blocks) IN
    IF texts = <<>> THEN <<>>
    ELSE LET k == CHOOSE k \in 1..Len(texts) :
                     /\ \A m \in 1..Len(texts) : texts[m].len <= texts[k].len
                     /\ \A m \in 1..(k - 1) : texts[m].len < texts[k].len
         IN <<texts[k]>>

\* extract_content accepting the article's paragraphs whatever their length
extract_content_no_floor(selector, page) ==
    LET in_article == IF page.article = None THEN <<>>
                      ELSE Pieces("article", page.article[1])
        in_document == in_article \o Pieces("p", page.rest)
    IN IF selector /\ page.match.kind = "element"
       THEN Pieces("selector", <<page.match.len>>)
       ELSE IF page.article # None
       THEN long_paragraphs(in_article)
       ELSE IF joined_len(long_paragraphs(in_document)) >= content_floor
       THEN long_paragraphs(in_document)
       ELSE best_text(page.blocks)

\* FixedWebScraper.extract_content(soup); selector: whether the
\* configuration has a content selector
extract_content(selector, page) ==
    LET in_article == IF page.article = None THEN <<>>
                      ELSE Pieces("article", page.article[1])
        in_document == in_article \o Pieces("p", page.rest)
    IN IF selector /\ page.match.kind = "element"
       THEN Pieces("selector", <<page.match.len>>)
       ELSE IF page.article # None
               /\ joined_len(long_paragraphs(in_article)) >= content_floor
       THEN long_paragraphs(in_article)
       ELSE IF joined_len(long_paragraphs(in_document)) >= content_floor
       THEN long_paragraphs(in_document)
       ELSE best_text(page.blocks)

\* one call scraper.extract_content(soup)
extract_content_call ==
    /\ content_call = None
    /\ \E selector \in BOOLEAN, page \in ContentPages :
         /\ ~selector => page.match.kind = "none"
         /\ content_call' = Some([selector |-> selector,
                                  page     |-> page,
                                  result   |-> extract_content(selector, page)])
    /\ UNCHANGED <<config_vars, call_vars, field_call, links_call, save_call,
                   job_vars>>

\* extract_content applied to every page within the bounds
ContentSpec == JobInit /\ [][extract_content_call]_vars

\* -------------------------------------------------------------- save_to_csv
\* the records save_to_csv is given: what parse_article_detail returns
SavedRecords == {r[1] : r \in JobDetailResults(1) \ {None}}

\* the data of a call: a list of records
RecordLists == UNION {[1..n -> SavedRecords] : n \in 0..MaxRecords}

\* the output file before a call: absent, a header without rows, or the
\* record of an earlier run
FilesBefore == {None, Some(<<>>)} \cup {Some(<<r>>) : r \in SavedRecords}

\* one call save_to_csv(data, filename)
save_to_csv_call ==
    /\ save_call = None
    /\ \E data \in RecordLists, before \in FilesBefore :
         \E failure \in SaveFailures(data) :
            LET call == save_to_csv(data, before, failure) IN
            save_call' = Some([data    |-> data,
                               before  |-> before,
                               failure |-> failure,
                               result  |-> call.result,
                               file    |-> call.file])
    /\ UNCHANGED <<config_vars, call_vars, field_call, links_call, content_call,
                   job_vars>>

\* save_to_csv applied to every record list within the bounds
SaveSpec == JobInit /\ [][save_to_csv_call]_vars

\* ================================================================== claims

\* C1: under every interleaving of start requests, stop requests and worker
\* steps at most one run_scraper worker is in flight, and a start request
\* issued while an accepted job has not terminated is rejected.
C1_OneWorkerInFlight ==
    /\ [](Cardinality(LiveThreads) <= 1)
    /\ [][(\E keywords \in env.keywords : start_scraping(keywords))
            /\ LiveThreads # {}
          => reply' = "start_rejected"]_vars

\* C2: once a stop request has been accepted during the detail loop of a job
\* with current_article = k, the worker of that job starts no further detail
\* fetch, hands the records it kept to save_to_csv, and ends with is_running
\* false and scraping_status.current_article = k, whatever requests follow.
C2_StopEndsJob ==
    [][\A i \in 1..Len(threads) :
          stopped_at[i] # None =>
              /\ ~(threads[i].pc = "detail_check"
                    /\ threads'[i].pc = "detail_fetch")
              /\ threads[i].pc = "detail_check" /\ threads'[i].pc # "detail_check"
                    => /\ threads'[i].pc = "save"
                       /\ threads'[i].articles = threads[i].articles
              /\ threads[i].pc = "save" /\ threads'[i].pc # "save"
                    => last_articles' = threads[i].articles
              /\ threads[i].pc = "finally" /\ threads'[i].pc = "done"
                    => /\ ~scraping_status'.is_running
                       /\ scraping_status'.current_article = stopped_at[i][1]]_vars

\* a step of thread i that records an internal failure
Failed(i) == threads[i].pc = "except" /\ threads'[i].pc # "except"

\* C3: every accepted job reaches its terminal state, and does so with
\* is_running false, whether it completes, is cancelled or fails internally;
\* whenever no worker is in flight is_running is false; an internal failure
\* is stored in scraping_status['error'] and appended to the log.
C3_JobsTerminate ==
    /\ \A i \in 1..MaxJobs :
          (Len(threads) >= i) ~> (Len(threads) >= i /\ threads[i].pc = "done")
    /\ [](LiveThreads = {} => ~scraping_status.is_running)
    /\ [][\A i \in 1..Len(threads) :
            /\ Live(i) /\ threads'[i].pc = "done"
                  => ~scraping_status'.is_running
            /\ Failed(i)
                  => /\ scraping_status'.error # None
                     /\ Len(global_logs') > Len(global_logs)
                     /\ global_logs'[Len(global_logs) + 1] = "error"]_vars

C3_Witness ==
    /\ Len(threads) = MaxJobs
    /\ LiveThreads = {}
    /\ \E i \in 1..Len(threads) : stopped_at[i] # None
    /\ \E k \in 1..Len(global_logs) : global_logs[k] = "error"
    /\ scraping_status.error # None
    /\ ~scraping_status.is_running

\* C4: a stop request issued between the acceptance of a start request and
\* the termination of that job's worker is accepted and sets is_running to
\* false; a stop request issued while no job is in flight is rejected and
\* changes no state.
C4_StopWhileInFlight ==
    [][stop_scraping =>
          IF LiveThreads # {}
          THEN reply' = "stopped" /\ ~scraping_status'.is_running
          ELSE /\ reply' = "stop_rejected"
               /\ UNCHANGED <<scraping_status, global_logs, current_keywords,
                              last_articles, csv_file, threads>>]_vars

\* C5: a start request that arrives while is_running is true is rejected and
\* changes nothing: scraping_status, current_keywords and global_logs stay as
\* they are and no worker thread is spawned.
C5_StartWhileRunning ==
    [][(\E keywords \in env.keywords : start_scraping(keywords))
         /\ scraping_status.is_running
       => /\ reply' = "start_rejected"
          /\ UNCHANGED <<scraping_status, current_keywords, global_logs,
                         threads, last_articles, csv_file>>]_vars

C5_Witness ==
    /\ reply = "start_rejected"
    /\ scraping_status.is_running
    /\ LiveThreads # {}

\* C6: a poller that starts at index 0 and passes each next_index back as
\* last_index has received, after each call, exactly the entries appended
\* before its cursor, in append order, under any interleaving with a worker;
\* global_logs only grows at its end.
C6_PollerSeesEveryEntry ==
    /\ [](poller.pc = "idle"
            => poller.received = SubSeq(global_logs, 1, poller.last_index))
    /\ [][/\ Len(global_logs') >= Len(global_logs)
          /\ SubSeq(global_logs', 1, Len(global_logs)) = global_logs]_vars

\* C11: every record a job writes to the output file meets the
\* high-engagement threshold, i.e. has is_bestseller true.
C11_OnlyBestsellersWritten ==
    csv_file # None =>
        \A k \in 1..Len(csv_file[1]) : csv_file[1][k].is_bestseller

\* the text extract_text is described to return for a matched element: the
\* trimmed text, cut to max_length characters and '...' when it is longer
Truncated(text, max_length) ==
    LET trimmed == strip(text) IN
    IF max_length # None /\ Len(trimmed) > max_length[1]
    THEN SubSeq(trimmed, 1, max_length[1]) \o <<".", ".", ".">>
    ELSE trimmed

\* C14: extract_text always returns a string: the trimmed text of the first
\* element matching the field's selector, cut to max_length characters
\* followed by '...' when max_length is given and the text is longer, and the
\* empty string when the field has no selector or no element matches.
C14_ExtractTextReturnsString ==
    (field_call # None /\ field_call[1].op = "extract_text") =>
        LET c == field_call[1] IN
        /\ c.result # None
        /\ c.result[1] = IF c.selector /\ c.element # None
                         THEN Truncated(c.element[1], c.max_length)
                         ELSE <<>>

\* s occurs in text as a maximal run of digits with no digit before it
FirstDigitRun(text, from, to) ==
    /\ 1 <= from /\ from <= to /\ to <= Len(text)
    /\ \A k \in 1..(from - 1) : text[k] \notin Digits
    /\ \A k \in from..to : text[k] \in Digits
    /\ to < Len(text) => text[to + 1] \notin Digits

\* value of a digit string, most significant digit first
RECURSIVE Decimal(_, _)
Decimal(digits, acc) ==
    IF digits = <<>> THEN acc
    ELSE Decimal(Tail(digits), 10 * acc + DigitValue(Head(digits)))

\* C15: extract_number returns the integer value of the first contiguous run
\* of digits of the matched element's text after removing the thousands
\* separators, and 0 when the field has no selector, no element matches or
\* the text has no digit; the result is never negative.
C15_ExtractNumber ==
    (field_call # None /\ field_call[1].op = "extract_number") =>
        LET c      == field_call[1]
            number == c.result[1] IN
        /\ number >= 0
        /\ IF c.selector /\ c.element # None
           THEN LET text == SelectSeq(c.element[1], LAMBDA ch : ch # ",") IN
                IF \E k \in 1..Len(text) : text[k] \in Digits
                THEN \E from \in 1..Len(text), to \in 1..Len(text) :
                        /\ FirstDigitRun(text, from, to)
                        /\ number = Decimal(SubSeq(text, from, to), 0)
                ELSE number = 0
           ELSE number = 0

\* '7,0x' gives 70
C15_Witness ==
    /\ field_call # None
    /\ field_call[1].op = "extract_number"
    /\ field_call[1].element = Some(<<"7", ",", "0", "x">>)
    /\ field_call[1].result = Some(70)

\* the records of a sequence all have a title and the URL of one of links
TitledRecordsOf(records, links) ==
    \A k \in 1..Len(records) :
        /\ records[k].title # <<>>
        /\ \E p \in 1..Len(links) : links[p] = records[k].detail_url

\* C12: every record the orchestrator hands to the persistence sink has a
\* non-empty title and a detail_url equal to the link it was fetched from,
\* also for links whose fetch failed or whose page has no title of any kind.
C12_PersistedTitleAndUrl ==
    /\ \A i \in 1..Len(threads) :
          LET t == threads[i] IN
          /\ TitledRecordsOf(t.articles, t.all_links)
          /\ (t.article_data # None /\ t.pc # "detail_fetch")
                => t.article_data[1].detail_url = t.detail_url
          /\ (t.pc = "detail_fetch") => t.detail_url = t.all_links[t.link]
    /\ csv_file # None => \A k \in 1..Len(csv_file[1]) : csv_file[1][k].title # <<>>
    /\ \A k \in 1..Len(last_articles) : last_articles[k].title # <<>>

\* written: a record titled with its URL, after a link whose fetch failed
C12_Witness ==
    /\ csv_file # None
    /\ \E k \in 1..Len(csv_file[1]) :
          /\ csv_file[1][k].title = Url(csv_file[1][k].detail_url)
          /\ csv_file[1][k].detail_url > 1
    /\ \E k \in 1..Len(csv_file[1]) : csv_file[1][k].title = <<"7">>

\* C13: parse_article_detail sets title to the text of the element matched
\* by the configured title selector when that text is non-empty; otherwise to
\* the text of the document's own title element when non-empty; otherwise to
\* detail_url.
C13_TitleResolution ==
    (fetch_pc = "parsed" /\ article_data # None
     /\ article_data[1].status_code # None) =>
        LET selected == IF "title" \in selectors /\ soup.title_element # None
                        THEN strip(soup.title_element[1]) ELSE <<>>
            document == IF soup.doc_title # None
                        THEN strip(soup.doc_title[1]) ELSE <<>>
        IN article_data[1].title =
               IF selected # <<>> THEN selected
               ELSE IF document # <<>> THEN document
               ELSE Url(article_data[1].detail_url)

\* a step in which thread i leaves the program point pc
Leaves(i, pc) == threads[i].pc = pc /\ threads'[i].pc # pc

\* C18: unless cancelled, the page stage requests every page 1..max_pages in
\* increasing order, a page without links being logged and skipped, and at
\* its end total_articles is the number of links discovered over all pages.
C18_EveryPageRequested ==
    [][\A i \in 1..Len(threads) :
          LET t == threads[i] IN
          /\ Leaves(i, "page_fetch")
                => /\ threads'[i].pc = "page_check"
                   /\ threads'[i].page = t.page + 1
                   /\ Len(threads'[i].all_links) = Len(t.all_links)
                         => /\ Len(global_logs') > 0
                            /\ global_logs'[Len(global_logs')] = "page_empty"
          /\ (Leaves(i, "page_check") /\ threads'[i].pc = "page_fetch")
                => t.page \in 1..max_pages /\ threads'[i].page = t.page
          /\ (Leaves(i, "page_check") /\ scraping_status.is_running
              /\ threads'[i].pc \in {"detail_check", "finally"})
                => /\ t.page = max_pages + 1
                   /\ t.total_articles = Len(t.all_links)
                   /\ scraping_status.total_articles = Len(t.all_links)]_vars

\* two links on the first page, none on the second
C18_Witness ==
    \E i \in 1..Len(threads) :
        /\ threads[i].pc = "detail_check"
        /\ threads[i].link = 1
        /\ threads[i].page = MaxPages + 1
        /\ threads[i].all_links = <<1, 2>>
        /\ scraping_status.is_running
        /\ scraping_status.total_articles = 2
        /\ Len(global_logs) > 1
        /\ global_logs[Len(global_logs) - 1] = "page_empty"

\* the filters as the start request's keywords define them
Passes(record) ==
    /\ record.content_len >= min_content_length
    /\ \/ current_keywords = <<>>
       \/ \E k \in 1..Len(current_keywords) :
             current_keywords[k] \in record.mentions

\* C19: at every point of the detail stage the accumulated article list is,
\* in link order, exactly the parsed records with at least min_content_length
\* characters of content that contain a keyword when keywords were given at
\* start; a record failing either filter is never persisted.
C19_ArticlesAreFilteredRecords ==
    /\ [](/\ \A i \in 1..Len(threads) :
               LET a == threads[i].articles IN
               /\ \A k \in 1..Len(a) : Passes(a[k])
               /\ \A k \in 1..(Len(a) - 1) : a[k].detail_url < a[k + 1].detail_url
          /\ csv_file # None =>
                \A k \in 1..Len(csv_file[1]) : Passes(csv_file[1][k])
          /\ \A k \in 1..Len(last_articles) : Passes(last_articles[k]))
    /\ [][\A i \in 1..Len(threads) :
            LET t == threads[i]
                u == threads'[i] IN
            /\ Leaves(i, "detail_fetch")
                  => u.articles =
                        t.articles
                        \o (IF u.article_data # None /\ Passes(u.article_data[1])
                            THEN <<u.article_data[1]>> ELSE <<>>)
            /\ (~Leaves(i, "detail_fetch") /\ u.pc # "done")
                  => u.articles = t.articles]_vars

\* keywords given: one record kept, the next one dropped for its keywords
C19_Witness ==
    \E i \in 1..Len(threads) :
        LET t == threads[i] IN
        /\ t.pc = "detail_check"
        /\ current_keywords # <<>>
        /\ Len(t.articles) = 1
        /\ t.article_data # None
        /\ t.article_data[1].content_len >= min_content_length
        /\ ~Passes(t.article_data[1])

\* the parse of the latest link failed: no record, or an error-tagged one
BadPage(t) == t.article_data = None \/ t.article_data[1].error # None

\* C20: in a job that is not cancelled every discovered link gets exactly one
\* parse attempt, in discovery order; a detail page whose fetch or parse
\* fails gives an error-tagged record or none, and neither aborts the job nor
\* sets scraping_status['error'].
C20_BadPageNeverAborts ==
    [][\A i \in 1..Len(threads) :
          LET t == threads[i]
              u == threads'[i] IN
          /\ (Leaves(i, "detail_check") /\ u.pc = "detail_fetch")
                => /\ t.link \in 1..Len(t.all_links)
                   /\ u.detail_url = t.all_links[t.link]
                   /\ u.link = t.link
          /\ (Leaves(i, "detail_fetch") /\ BadPage(u))
                => /\ u.pc = "detail_check"
                   /\ scraping_status'.error = None
          /\ (Leaves(i, "detail_fetch") /\ u.pc = "detail_check")
                => u.link = t.link + 1
          /\ (~Leaves(i, "detail_fetch") /\ u.pc # "done")
                => u.link = t.link
          /\ (Leaves(i, "detail_check") /\ u.pc = "save"
              /\ scraping_status.is_running)
                => t.link = Len(t.all_links) + 1]_vars

\* an uncancelled job at the end of its links, the parse of the last failed
C20_Witness ==
    \E i \in 1..Len(threads) :
        LET t == threads[i] IN
        /\ t.pc = "save"
        /\ scraping_status.is_running
        /\ scraping_status.error = None
        /\ Len(t.all_links) > 1
        /\ t.link = Len(t.all_links) + 1
        /\ t.article_data = None
        /\ Len(t.articles) > 0

\* C16: no URL returned by fetch_article_links comes from an href that
\* begins with a script pseudo-protocol (javascript:, in any letter case,
\* after trimming whitespace) or that is a bare fragment starting with '#'.
C16_NoScriptOrFragmentLinks ==
    links_call # None =>
        \A k \in 1..Len(links_call[1].result) :
            LET href == links_call[1].result[k].href IN
            href # <<>> => lower(href)[1] \notin {"javascript:", "#"}

\* no selected element of the page contributes a link
NoLinkSurvives(page) ==
    \A k \in 1..Len(page.elements) : ~accepted(page.elements[k])

AllTimeout ==
    /\ fetch_pc = "parsed"
    /\ max_retries >= 1
    /\ \A k \in 1..Len(outcomes) : outcomes[k].kind = "timeout"

C8_StatusIsNotFailure ==
    fetch_pc = "parsed" =>
        \A k \in 1..attempts :
            outcomes[k].kind = "response" =>
                /\ attempts = k
                /\ response = Some([status_code |-> outcomes[k].status])
                /\ (outcomes[k].status # 200 /\ article_data # None) =>
                       /\ article_data[1].status_code = Some(outcomes[k].status)
                       /\ article_data[1].error # None
                       /\ article_data[1].error # <<"request_failed">>

\* C9: is_bestseller(read_count, interaction_count) is exactly
\* read_count > min_read_count and interaction_count > min_interaction_count,
\* hence false on either boundary, and the call changes no scraper state.
C9_VerdictIsStrictConjunction ==
    verdict # None =>
        LET v == verdict[1] IN
        /\ v.result = (v.read_count > min_read_count
                       /\ v.interaction_count > min_interaction_count)
        /\ (v.read_count = min_read_count
            \/ v.interaction_count = min_interaction_count) => ~v.result

C9_IsBestseller ==
    /\ []C9_VerdictIsStrictConjunction
    /\ [][classify => UNCHANGED <<config_vars, outcomes, attempts,
                                  response, article_data>>]_vars

C9_Witness ==
    /\ verdict # None
    /\ verdict[1].read_count = min_read_count
    /\ verdict[1].interaction_count > min_interaction_count
    /\ ~verdict[1].result

\* C10: every record parse_article_detail returns, the record of a failed
\* fetch included, has is_bestseller equal to read_count > min_read_count and
\* like_count + collect_count > min_interaction_count.
C10_RecordClassified ==
    article_data # None =>
        LET a == article_data[1] IN
        a.is_bestseller = (a.read_count > min_read_count
                           /\ a.like_count + a.collect_count > min_interaction_count)

C10_Witness ==
    /\ article_data # None
    /\ article_data[1].is_bestseller
    /\ article_data[1].like_count <= min_interaction_count

\* ------------------------------------------------------------ persistence
\* the last entry logged
LastEntry(logs) == IF logs = <<>> THEN "none" ELSE logs[Len(logs)]

\* C21: when save_to_csv fails to write, the failure is logged and the error
\* field of the status is set; the job then ends with is_running false and
\* last_articles (what preview_results serves) holds the records the job
\* collected.
C21_SinkFailureSurfaced ==
    [][\A i \in 1..Len(threads) :
          /\ (Leaves(i, "save") /\ threads'[i].saved = Some(FALSE))
                => /\ LastEntry(global_logs') = "save_failed"
                   /\ scraping_status'.error # None
                   /\ last_articles' = threads[i].articles
          /\ (Leaves(i, "finally") /\ threads[i].saved = Some(FALSE))
                => /\ ~scraping_status'.is_running
                   /\ scraping_status'.error # None
                   /\ last_articles' = threads[i].articles]_vars

\* ----------------------------------------------------------- status counters
\* job i has made its reset of the status and has not terminated
Counting(i) == threads[i].pc \notin {"spawned", "done"}

\* C22: the first step of a job resets total_articles, current_article,
\* bestsellers_found and progress to 0 and error to None; from then until the
\* job terminates, no step of any thread or request handler decreases
\* total_articles, current_article or bestsellers_found.
C22_CountersResetThenMonotone ==
    [][/\ \A i \in 1..Len(threads) :
             Leaves(i, "spawned")
                => /\ scraping_status'.total_articles = 0
                   /\ scraping_status'.current_article = 0
                   /\ scraping_status'.bestsellers_found = 0
                   /\ scraping_status'.progress = 0
                   /\ scraping_status'.error = None
       /\ (\E i \in 1..Len(threads) : Counting(i))
             => /\ scraping_status'.total_articles
                      >= scraping_status.total_articles
                /\ scraping_status'.current_article
                      >= scraping_status.current_article
                /\ scraping_status'.bestsellers_found
                      >= scraping_status.bestsellers_found]_vars

\* --------------------------------------------------------------- save_to_csv
\* C23: save_to_csv returns True exactly when it wrote the given records:
\* with an empty list it returns False and leaves the file as it was (none is
\* created, none overwritten); with a non-empty list that it can write it
\* returns True and the file holds every record.
C23_SaveReturnsTrueIffWritten ==
    save_call # None =>
        LET c == save_call[1] IN
        /\ c.result <=> (c.data # <<>> /\ c.file = Some(c.data))
        /\ c.data = <<>> => (~c.result /\ c.file = c.before)
        /\ (c.data # <<>> /\ c.failure.at = "none")
              => (c.result /\ c.file = Some(c.data))

\* ------------------------------------------------------- the link filter set
\* the first whitespace-delimited token of an element's href attribute
Token(element) ==
    LET stripped == strip(element.href[1]) IN
    IF stripped = <<>> THEN <<>> ELSE first_token(stripped)

\* the filters on an element, its href being taken as h
Qualifies(element, h) ==
    /\ h # <<>>
    /\ h[Len(h)] \notin ExcludedExtensions
    /\ len(h) >= 10
    /\ h[1] \notin {"javascript:", "#"}
    /\ element.text.length >= 4
    /\ ~element.text.boilerplate

\* a call that got a page, parsed it and did not take the single-page fallback
Filtering(c) ==
    /\ ~Falsy(c.response)
    /\ ~c.page.broken
    /\ ~(c.page.a_count = 0 /\ NoLinkSurvives(c.page))

Qualifying(src, lens) ==
    SelectSeq(Pieces(src, lens), LAMBDA p : p.len >= 20)

\* the length of the newline-joined text of paragraphs
RECURSIVE Joined(_)
Joined(ps) ==
    IF ps = <<>> THEN 0
    ELSE IF Len(ps) = 1 THEN ps[1].len
    ELSE ps[1].len + 1 + Joined(Tail(ps))

\* C25: extract_content returns the result of the first accepted step: the
\* content selector's text when a content selector is configured and
\* matches; else the newline-joined paragraphs of at least 20 characters of
\* the first article element when that text has at least 200 characters;
\* else the same over all paragraphs of the document when at least 200; else
\* the text of a div/section/main block with the most text, empty if none.
C25_ContentCascade ==
    content_call # None =>
        LET c       == content_call[1]
            matched == c.selector /\ c.page.match.kind = "element"
            article == IF c.page.article = None THEN <<>>
                       ELSE Qualifying("article", c.page.article[1])
            whole   == article \o Qualifying("p", c.page.rest)
            by_article == c.page.article # None /\ Joined(article) >= 200
            by_whole   == Joined(whole) >= 200
        IN /\ matched => c.result = Pieces("selector", <<c.page.match.len>>)
           /\ (~matched /\ by_article) => c.result = article
           /\ (~matched /\ ~by_article /\ by_whole) => c.result = whole
           /\ (~matched /\ ~by_article /\ ~by_whole) =>
                 IF \A k \in 1..Len(c.page.blocks) : c.page.blocks[k] = 0
                 THEN c.result = <<>>
                 ELSE /\ Len(c.result) = 1
                      /\ c.result[1].src = "block"
                      /\ c.result[1].len = c.page.blocks[c.result[1].k]
                      /\ \A k \in 1..Len(c.page.blocks) :
                            c.page.blocks[k] <= c.result[1].len

\* an article element whose qualifying paragraphs stay under the floor, on a
\* page whose paragraphs together reach it: the whole-document text is
\* returned
C25_Witness ==
    /\ content_call # None
    /\ ~content_call[1].selector
    /\ content_call[1].page.article # None
    /\ Qualifying("article", content_call[1].page.article[1]) # <<>>
    /\ Joined(Qualifying("article", content_call[1].page.article[1])) < 200
    /\ Len(content_call[1].result) = 2
    /\ content_call[1].result[1].src = "article"
    /\ content_call[1].result[2].src = "p"

\* ---------------------------------------------------------- politeness delay
\* thread i goes from pc to next
Goes(i, pc, next) == threads[i].pc = pc /\ threads'[i].pc = next

\* C26: when a job issues a detail-page fetch after an earlier one, it has
\* slept a delay drawn from [request_delay_min, request_delay_max] since that
\* earlier fetch; when it issues a list-page fetch after an earlier one, it
\* has slept a delay drawn from [page_delay_min, page_delay_max] since.
C26_DelayBetweenFetches ==
    [][\A i \in 1..Len(threads) :
          /\ (Goes(i, "detail_check", "detail_fetch") /\ threads[i].link > 1)
                => threads[i].slept = Some("request_delay")
          /\ (Goes(i, "page_check", "page_fetch") /\ threads[i].page > 1)
                => threads[i].slept = Some("page_delay")]_vars

\* ------------------------------------------------------------------ progress
\* floor(100 * current_article / max(total_articles, 1))
Percent(status) ==
    (100 * status.current_article)
    \div (IF status.total_articles >= 1 THEN status.total_articles ELSE 1)

\* C27: in every reachable state 0 <= current_article <= total_articles and
\* 0 <= progress <= 100, progress being floor(100 * current_article /
\* max(total_articles, 1)) of the status' own counters; when a job that was
\* not cancelled finishes its detail stage, current_article == total_articles
\* and progress == 100.
C27_ProgressWithinBounds ==
    /\ [](/\ 0 <= scraping_status.current_article
          /\ scraping_status.current_article <= scraping_status.total_articles
          /\ 0 <= scraping_status.progress
          /\ scraping_status.progress <= 100
          /\ scraping_status.progress = Percent(scraping_status))
    /\ [][\A i \in 1..Len(threads) :
             (Goes(i, "detail_check", "save") /\ ~threads[i].stop_seen
              /\ threads[i].link > Len(threads[i].all_links))
                => /\ scraping_status'.current_article
                        = scraping_status'.total_articles
                   /\ scraping_status'.progress = 100]_vars

\* ------------------------------------------------------- calls of the sink
\* the entries of the completion summary
Summary == {"task_done", "task_done_keywords", "saved_to"}

\* what holds of the sink whether or not a job fails: it is called from the
\* save step only, once, after the last detail fetch; a job without links
\* never calls it, leaves the file and the preview records as they are and
\* logs no summary
SinkDiscipline(i) ==
    LET t == threads[i] IN
    /\ threads'[i].sink_calls > t.sink_calls
          => (Leaves(i, "save") /\ t.sink_calls = 0 /\ threads'[i].sink_calls = 1)
    /\ Goes(i, "detail_check", "detail_fetch") => t.sink_calls = 0
    /\ Leaves(i, "save") => last_articles' = t.articles
    /\ (Leaves(i, "finally") /\ t.all_links = <<>>) => t.sink_calls = 0
    /\ (threads'[i].pc # t.pc /\ t.all_links = <<>> /\ threads'[i].all_links = <<>>)
          => /\ csv_file' = csv_file
             /\ last_articles' = last_articles
             /\ (global_logs' # global_logs
                   => LastEntry(global_logs') \notin Summary)

\* C28 as stated: a job calls save_to_csv at most once and only after its
\* last detail fetch: exactly once when its page stage returned a link, even
\* if it was cancelled or kept no record (the file and last_articles then
\* hold an empty result set), and never when its page stage returned no link
\* (file and last_articles unchanged, no summary logged).
C28_SinkOncePerJobWithLinks ==
    [][\A i \in 1..Len(threads) :
          /\ SinkDiscipline(i)
          /\ (Leaves(i, "finally") /\ threads[i].all_links # <<>>)
                => threads[i].sink_calls = 1
          /\ (Leaves(i, "save") /\ threads[i].articles = <<>>)
                => (csv_file' = Some(<<>>) /\ last_articles' = <<>>)]_vars

\* C28 amended: the same for a job that does not end in the except clause
\* of run_scraper, the file holding the empty result set when the write
\* succeeds.
C28_SinkOnceUnlessFailed ==
    [][\A i \in 1..Len(threads) :
          /\ SinkDiscipline(i)
          /\ (Leaves(i, "finally") /\ threads[i].all_links # <<>>
               /\ scraping_status.error = None)
                => threads[i].sink_calls = 1
          /\ (Leaves(i, "finally") /\ scraping_status.error # None)
                => threads[i].sink_calls = 0
          /\ (Leaves(i, "save") /\ threads[i].articles = <<>>)
                => /\ last_articles' = <<>>
                   /\ threads'[i].saved = Some(TRUE) => csv_file' = Some(<<>>)]_vars

\* a cancelled job with a link and no record kept has called the sink once:
\* the file and the preview records are empty result sets
C28_Witness ==
    \E i \in 1..Len(threads) :
        /\ threads[i].pc = "finally"
        /\ threads[i].stop_seen
        /\ threads[i].all_links # <<>>
        /\ threads[i].articles = <<>>
        /\ threads[i].sink_calls = 1
        /\ threads[i].saved = Some(TRUE)
        /\ csv_file = Some(<<>>)
        /\ last_articles = <<>>

\* ------------------------------------------------------------- early stops
PageStage == {"page_check", "page_fetch"}

DetailStage == {"detail_check", "detail_fetch"}

\* C29: a job leaves its page stage before its last page, or its detail
\* stage before its last link, only if a stop request was accepted during
\* the job; and as long as none was, the status reports is_running == true
\* while the job's worker is in flight, whatever other workers do.
C29_OnlyStopEndsEarly ==
    /\ [](\A i \in 1..Len(threads) :
             (Counting(i) /\ ~threads[i].stop_seen)
                => scraping_status.is_running)
    /\ [][\A i \in 1..Len(threads) :
             LET t == threads[i] IN
             /\ (t.pc \in PageStage /\ threads'[i].pc \notin PageStage
                 /\ t.page <= max_pages) => t.stop_seen
             /\ (t.pc \in DetailStage /\ threads'[i].pc \notin DetailStage
                 /\ t.link <= Len(t.all_links)) => t.stop_seen]_vars

\* ------------------------------------------------------- bestsellers_found
\* the number of records with is_bestseller true
BestsellersIn(records) ==
    Cardinality({k \in 1..Len(records) : records[k].is_bestseller})

\* whether a parse result counts as a bestseller
IsBestsellerResult(result) == result # None /\ result[1].is_bestseller

\* C30: within a job, bestsellers_found is the number of detail pages
\* processed so far whose record has is_bestseller true, whether or not the
\* record passes the content and keyword filters; so it lies between 0 and
\* current_article and is at least the number of bestseller records the job
\* has kept and persists.
C30_BestsellersCountedBeforeFilters ==
    /\ [](\A i \in 1..Len(threads) :
             Counting(i)
                => /\ scraping_status.bestsellers_found = threads[i].bestsellers
                   /\ 0 <= scraping_status.bestsellers_found
                   /\ scraping_status.bestsellers_found
                         <= scraping_status.current_article
                   /\ scraping_status.bestsellers_found
                         >= BestsellersIn(threads[i].articles))
    /\ [][\A i \in 1..Len(threads) :
             /\ Leaves(i, "detail_fetch")
                   => threads'[i].bestsellers
                        = threads[i].bestsellers
                          + (IF IsBestsellerResult(threads'[i].article_data)
                             THEN 1 ELSE 0)
             /\ (threads'[i].pc # threads[i].pc /\ ~Leaves(i, "detail_fetch")
                 /\ ~Leaves(i, "finally"))
                   => threads'[i].bestsellers = threads[i].bestsellers
             /\ (Leaves(i, "save") /\ threads'[i].saved = Some(TRUE))
                   => scraping_status'.bestsellers_found
                        >= BestsellersIn(csv_file'[1])]_vars

\* a finished job that counted a bestseller and persisted none: the
\* bestseller's record did not pass the filters
C30_Witness ==
    \E i \in 1..Len(threads) :
        /\ threads[i].pc = "finally"
        /\ threads[i].saved = Some(TRUE)
        /\ scraping_status.bestsellers_found > 0
        /\ csv_file # None
        /\ BestsellersIn(csv_file[1]) = 0

====
